---- MODULE Spec2Model ----
(***************************************************************************)
(* Model of src/ftnirsml/code.py: the FT-NIR age-regression pipeline.       *)
(*                                                                         *)
(* Part 1 (SpecPersist): the persistence layer, saveModelWithMetadata and  *)
(* readModelMetadata, over a small file system of .h5 artifacts.           *)
(*                                                                         *)
(* Python values are tagged records so that the code's own distinctions    *)
(* (list against tuple, text against parsed value) stay visible:           *)
(*   PyStr(s), PyList(xs), PyTuple(xs), and the text json.dumps returns,   *)
(*   [t |-> "text", toks |-> token sequence].                              *)
(***************************************************************************)
EXTENDS Integers, Sequences, FiniteSets, TLC

VARIABLES
    files,      \* path -> the h5 file at that path ("absent" when there is none)
    op,         \* the last persistence call and its outcome
    expected,   \* ghost: path -> the records an append-only history would hold
    lastSave,   \* ghost: path -> the most recent save to it (args, outcome)
    nSaves,     \* number of saveModelWithMetadata calls made so far
    raw_data,   \* the caller's table (DataFrame), mutated in place by the pipeline
    call,       \* the last call made on the table and its outcome
    repaired,   \* ghost: handle_missing_data has returned for this table
    trained     \* training_outputs of the last training call that returned

pvars == <<files, op, expected, lastSave, nSaves>>

tvars == <<raw_data, call, repaired, trained>>

vars == <<files, op, expected, lastSave, nSaves, raw_data, call, repaired, trained>>

(***************************************************************************)
(* Bounds of the persistence model.                                        *)
(***************************************************************************)
MaxSaves == 3

Paths == {"p1", "p2"}

NoPath == "None"

(***************************************************************************)
(* Python values.                                                          *)
(***************************************************************************)
PyStr(s) == [t |-> "str", v |-> s]

PyList(xs) == [t |-> "list", v |-> xs]

PyTuple(xs) == [t |-> "tuple", v |-> xs]

ColumnNameLists ==
    { PyList(<<PyStr("weight")>>),
      PyList(<<PyStr("weight"), PyStr("wn_4000")>>) }

Descriptions == {PyStr("v1"), PyStr("v2")}

Approaches == {PyStr("manual"), PyStr("hyperband")}

ScalerX == [t |-> "scaler", v |-> "scaler_x"]

ScalerY == [t |-> "scaler", v |-> "scaler_y"]

(***************************************************************************)
(* json.dumps / json.loads on nested arrays of strings.  The text is a     *)
(* token sequence: [ , ] and string literals.  A tuple is written as an    *)
(* array, so it is read back as a list.                                    *)
(***************************************************************************)
Tok(k) == [k |-> k]

Lit(s) == [k |-> "lit", v |-> s]

RECURSIVE json_tokens(_)
RECURSIVE json_items(_, _)
json_items(xs, i) ==
    IF i > Len(xs) THEN <<>>
    ELSE (IF i > 1 THEN <<Tok(",")>> ELSE <<>>)
         \o json_tokens(xs[i]) \o json_items(xs, i + 1)

json_tokens(val) ==
    IF val.t \in {"list", "tuple"}
    THEN <<Tok("[")>> \o json_items(val.v, 1) \o <<Tok("]")>>
    ELSE <<Lit(val)>>

json_dumps(val) == [t |-> "text", toks |-> json_tokens(val)]

\* Parse one value starting at token i: [val, next].
RECURSIVE json_parse_value(_, _)
RECURSIVE json_parse_items(_, _, _)
json_parse_items(toks, i, acc) ==
    IF toks[i].k = "]" THEN [val |-> PyList(acc), next |-> i + 1]
    ELSE LET j == IF toks[i].k = "," THEN i + 1 ELSE i
             r == json_parse_value(toks, j)
         IN json_parse_items(toks, r.next, Append(acc, r.val))

json_parse_value(toks, i) ==
    IF toks[i].k = "[" THEN json_parse_items(toks, i + 1, <<>>)
    ELSE [val |-> toks[i].v, next |-> i + 1]

json_loads(text) == json_parse_value(text.toks, 1).val

(***************************************************************************)
(* pickle + base64 of a scaler object.                                     *)
(***************************************************************************)
pickle_dumps(obj) == [t |-> "bytes", pickled |-> obj]

pickle_loads(bytes) == bytes.pickled

b64encode(bytes) == [t |-> "str", b64 |-> bytes]

b64decode(str) == str.b64

(***************************************************************************)
(* h5 files.  model.save(path) truncates the file and writes the network;  *)
(* the file then has no 'metadata' group.                                  *)
(***************************************************************************)
Absent == [kind |-> "absent"]

ModelFile(model) == [kind |-> "h5", model |-> model, metadata |-> [present |-> FALSE]]

WithMetadata(f, text) ==
    [f EXCEPT !.metadata = [present |-> TRUE, metadata_history |-> text]]

\* A Keras model of the two-branch topology: the widths of its two Input
\* layers, the function that built it, and whether it has been fitted.
KerasModel(input_dim_A, input_dim_B, builder, fitted) ==
    [input_dim_A |-> input_dim_A, input_dim_B |-> input_dim_B,
     builder |-> builder, fitted |-> fitted]

\* lines 468-469 and 525-526: the widths the manual and fine-tune modes fix
ManualDimA == 97

ManualDimB == 1000

Raise(e) == [raised |-> TRUE, error |-> e]

Return(val) == [raised |-> FALSE, value |-> val]

\* readModelMetadata(path), lines 627-645, on file system fs.
readModelMetadata(fs, path) ==
    IF path \notin Paths \/ fs[path].kind = "absent"
    THEN Raise("OSError")                              \* h5py.File(path, 'r')
    ELSE LET f == fs[path]
             metadata == IF f.metadata.present
                         THEN json_loads(f.metadata.metadata_history)
                         ELSE PyList(<<>>)
         IN IF Len(metadata.v) > 0
            THEN LET latest_metadata == metadata.v[Len(metadata.v)].v
                     column_names == json_loads(latest_metadata[1])
                     description == latest_metadata[2]
                     training_approach == latest_metadata[3]
                     scaler_x == pickle_loads(b64decode(latest_metadata[4]))
                     scaler_y == pickle_loads(b64decode(latest_metadata[5]))
                 IN Return(PyTuple(<<column_names, description,
                                     training_approach, scaler_x, scaler_y>>))
            ELSE Raise("ValueError")   \* "No metadata found in the provided path."

\* The record saveModelWithMetadata builds, lines 606-612.
new_metadata_swapped(column_names, description, training_approach, scaler_x_str, scaler_y_str) ==
    PyList(<<json_dumps(column_names), training_approach, description,
             scaler_x_str, scaler_y_str>>)

new_metadata(column_names, description, training_approach, scaler_x_str, scaler_y_str) ==
    PyList(<<json_dumps(column_names), description, training_approach,
             scaler_x_str, scaler_y_str>>)

\* old_metadata.append(new_metadata), line 614: only a list has append.
list_append(old_metadata, item) ==
    IF old_metadata.t = "list"
    THEN Return(PyList(Append(old_metadata.v, item)))
    ELSE Raise("AttributeError")

\* The args of a save as the record a history is expected to hold.
SaveArgs(column_names, description, training_approach) ==
    <<column_names, description, training_approach>>

(***************************************************************************)
(* saveModelWithMetadata(path, model, old_metadata_path, column_names,     *)
(* description, training_approach, scaler_x, scaler_y), lines 594-625.     *)
(***************************************************************************)
saveModelWithMetadata(path, model, old_metadata_path, column_names, description, training_approach) ==
    /\ nSaves < MaxSaves
    /\ LET fs1 == [files EXCEPT ![path] = ModelFile(model)]    \* model.save(path)
           scaler_x_str == b64encode(pickle_dumps(ScalerX))
           scaler_y_str == b64encode(pickle_dumps(ScalerY))
           read == readModelMetadata(fs1, old_metadata_path)
           \* try: ... except: old_metadata = []
           old_metadata == IF read.raised THEN PyList(<<>>) ELSE read.value
           appended == list_append(old_metadata,
                           new_metadata(column_names, description,
                                        training_approach, scaler_x_str, scaler_y_str))
           args == SaveArgs(column_names, description, training_approach)
           prior == IF old_metadata_path \in Paths
                    THEN expected[old_metadata_path] ELSE <<>>
       IN /\ IF appended.raised
             THEN /\ files' = fs1
                  /\ op' = [call |-> "save", path |-> path, raised |-> TRUE,
                            error |-> appended.error, args |-> args]
             ELSE \* h5py.File(path, 'a'): the group is created when missing
                  /\ files' = [fs1 EXCEPT ![path] =
                                  WithMetadata(@, json_dumps(appended.value))]
                  /\ op' = [call |-> "save", path |-> path, raised |-> FALSE,
                            error |-> "", args |-> args]
          /\ expected' = [expected EXCEPT ![path] = Append(prior, args)]
          /\ lastSave' = [lastSave EXCEPT ![path] =
                             [made |-> TRUE, raised |-> appended.raised, args |-> args]]
    /\ nSaves' = nSaves + 1

Save ==
    \E path \in Paths, old \in Paths \cup {NoPath},
       c \in ColumnNameLists, d \in Descriptions, a \in Approaches :
        saveModelWithMetadata(path, KerasModel(ManualDimA, ManualDimB, "build_model_manual", TRUE),
                              old, c, d, a)

\* A standalone readModelMetadata(path) call.
Load ==
    \E path \in Paths :
        LET r == readModelMetadata(files, path)
        IN /\ op' = [call |-> "load", path |-> path, raised |-> r.raised,
                     error |-> IF r.raised THEN r.error ELSE "",
                     args |-> IF r.raised THEN <<>> ELSE r.value.v]
           /\ UNCHANGED <<files, expected, lastSave, nSaves>>

(***************************************************************************)
(* Part 2: tables (pandas DataFrames) and the schema validator.            *)
(*                                                                         *)
(* A column name is a sequence of characters, so that str.lower() and the  *)
(* substring test of enforce_data_format are computed, not assumed.        *)
(* A table is [columns |-> names, rows |-> cells by row and position].     *)
(* Column labels are taken to be unique, as pd.read_csv makes them.        *)
(* Python's 0-based slices columns[a:b] are kept with their own numbers    *)
(* through Slice.                                                          *)
(***************************************************************************)
UpperChars == <<"A","B","C","D","E","F","G","H","I","J","K","L","M",
                "N","O","P","Q","R","S","T","U","V","W","X","Y","Z">>

LowerChars == <<"a","b","c","d","e","f","g","h","i","j","k","l","m",
                "n","o","p","q","r","s","t","u","v","w","x","y","z">>

LowerChar(c) ==
    IF \E i \in 1..Len(UpperChars) : UpperChars[i] = c
    THEN LowerChars[CHOOSE i \in 1..Len(UpperChars) : UpperChars[i] = c]
    ELSE c

\* col.lower()
lower(col) == [i \in 1..Len(col) |-> LowerChar(col[i])]

\* keyword in text
Contains(text, keyword) ==
    \E i \in 0..(Len(text) - Len(keyword)) :
        SubSeq(text, i + 1, i + Len(keyword)) = keyword

Min(S) == CHOOSE x \in S : \A y \in S : x <= y

\* seq[a:b] of Python, as a sequence
Slice(seq, a, b) == SubSeq(seq, a + 1, IF b < Len(seq) THEN b ELSE Len(seq))

\* the 1-based positions seq[a:b] covers
SlicePositions(seq, a, b) == (a + 1)..(IF b < Len(seq) THEN b ELSE Len(seq))

N_filename == <<"f", "i", "l", "e", "n", "a", "m", "e">>

N_sample == <<"s", "a", "m", "p", "l", "e">>

N_age == <<"a", "g", "e">>

N_weight == <<"w", "e", "i", "g", "h", "t">>

N_length == <<"l", "e", "n", "g", "t", "h">>

N_latitude == <<"l", "a", "t", "i", "t", "u", "d", "e">>

N_longitude == <<"l", "o", "n", "g", "i", "t", "u", "d", "e">>

N_sex_M == <<"s", "e", "x", "_", "M">>

N_sex_F == <<"s", "e", "x", "_", "F">>

N_sex_immature == <<"s", "e", "x", "_", "i", "m", "m", "a", "t", "u", "r", "e">>

N_file_name == <<"f", "i", "l", "e", "_", "n", "a", "m", "e">>

N_foo == <<"f", "o", "o">>

\* enforce_data_format: expected_first_10, line 48
expected_first_10 ==
    <<N_filename, N_sample, N_age, N_weight, N_length, N_latitude,
      N_longitude, N_sex_M, N_sex_F, N_sex_immature>>

\* the two marker keywords, line 60
keywords == <<<<"w", "a", "v", "e", "n", "u", "m", "b", "e", "r">>, <<"w", "n">>>>

\* line 50: the least number of columns
MinColumns == 100

\* line 59: columns[100:] are the spectral columns
SpectralStart == 100

RaiseValueError(site, detail) ==
    [raised |-> TRUE, error |-> [type |-> "ValueError", site |-> site, detail |-> detail]]

\* any(keyword in col.lower() for keyword in ['wavenumber', 'wn']), line 60
has_marker(col) ==
    \E k \in 1..Len(keywords) : Contains(lower(col), keywords[k])

\* enforce_data_format(data), lines 47-63: the three checks in code order,
\* each loop raising at its first failing position.
enforce_data_format_off_by_one(data) ==
    LET columns == data.columns
        n == Len(columns)
        bad10 == {i \in 0..(Len(expected_first_10) - 1) :
                     n >= MinColumns /\ columns[i + 1] # expected_first_10[i + 1]}
        badwn == {j \in SlicePositions(columns, SpectralStart + 1, n) :
                     ~has_marker(columns[j])}
    IN IF n < MinColumns
       THEN RaiseValueError("column_count", <<n>>)
       ELSE IF bad10 # {}
       THEN LET i == Min(bad10)
            IN RaiseValueError("first_10", <<i + 1, expected_first_10[i + 1], columns[i + 1]>>)
       ELSE IF badwn # {}
       THEN RaiseValueError("spectral_marker", <<columns[Min(badwn)]>>)
       ELSE Return(TRUE)

enforce_data_format(data) ==
    LET columns == data.columns
        n == Len(columns)
        bad10 == {i \in 0..(Len(expected_first_10) - 1) :
                     n >= MinColumns /\ columns[i + 1] # expected_first_10[i + 1]}
        badwn == {j \in SlicePositions(columns, SpectralStart, n) :
                     ~has_marker(columns[j])}
    IN IF n < MinColumns
       THEN RaiseValueError("column_count", <<n>>)
       ELSE IF bad10 # {}
       THEN LET i == Min(bad10)
            IN RaiseValueError("first_10", <<i + 1, expected_first_10[i + 1], columns[i + 1]>>)
       ELSE IF badwn # {}
       THEN RaiseValueError("spectral_marker", <<columns[Min(badwn)]>>)
       ELSE Return(TRUE)

(***************************************************************************)
(* Cells.  A numeric cell is the symbolic measurement read at (row, col);  *)
(* a missing cell is NaN; the identity columns hold strings.               *)
(***************************************************************************)
Str(x) == [k |-> "str", s |-> x]

NaN == [k |-> "nan"]

Num(r, c) == [k |-> "num", r |-> r, c |-> c]

DigitChars == <<"0", "1", "2", "3", "4", "5", "6", "7", "8", "9">>

RECURSIVE Digits(_)
Digits(i) ==
    IF i < 10 THEN <<DigitChars[i + 1]>>
    ELSE Digits(i \div 10) \o <<DigitChars[(i % 10) + 1]>>

\* Names of the free-form and the spectral columns of the input tables,
\* by Python column index.
BioName(i) == <<"b", "i", "o", "_">> \o Digits(i)

SpectralName(style, i) ==
    IF style = "wn" THEN <<"w", "n", "_">> \o Digits(i)
    ELSE IF style = "WN" THEN <<"W", "N">> \o Digits(i)
    ELSE <<"W", "a", "v", "e", "N", "u", "m", "b", "e", "r", "_">> \o Digits(i)

SpectralStyles == {"wn", "WN", "WaveNumber"}

N_w_n == <<"w", "_", "n">>

N_wave == <<"w", "a", "v", "e">>

\* The column labels of an input table with n columns: the given first ten,
\* col10 at index 10, free-form names up to index 99, spectral names from
\* index 100 on, except that the indexes in bad carry badName.
TableColumns(n, first, col10, style, bad, badName) ==
    [i \in 1..n |->
        LET py == i - 1
        IN IF py < 10 THEN first[i]
           ELSE IF py = 10 THEN col10
           ELSE IF py < 100 THEN BioName(py)
           ELSE IF py \in bad THEN badName
           ELSE SpectralName(style, py)]

\* A table as read from its source: column 0 holds the file identifier,
\* column 1 the partition tag, every other cell a measurement, and the
\* cells in missing are NaN.
MakeTable(columns, tags, missing) ==
    [columns |-> columns,
     rows |-> [r \in 1..Len(tags) |->
                 [c \in 1..Len(columns) |->
                     IF <<r, c>> \in missing THEN NaN
                     ELSE IF c = 1 THEN Str(<<"file", r>>)
                     ELSE IF c = 2 THEN Str(tags[r])
                     ELSE Num(r, c)]]]

EmptyTable == [columns |-> <<>>, rows |-> <<>>]

NoCall == [fn |-> "none"]

(***************************************************************************)
(* Part 3: missing values.  read_and_clean_data validates a table read     *)
(* from a CSV source; handle_missing_data is the caller-invoked repair.    *)
(***************************************************************************)
IsNull(cell) == cell.k = "nan"

RowsOf(data) == 1..Len(data.rows)

ColsOf(data) == 1..Len(data.columns)

\* data.isnull().values.any()
any_null(data) ==
    \E r \in RowsOf(data), c \in ColsOf(data) : IsNull(data.rows[r][c])

\* read_and_clean_data(data_source), lines 65-78.  source_kind is the Python
\* type of data_source; content is the table pd.read_csv parses from it.
read_and_clean_data(source_kind, content) ==
    IF source_kind \notin {"str", "StringIO"}
    THEN RaiseValueError("data_source", <<source_kind>>)
    ELSE LET fmt == enforce_data_format(content)
         IN IF fmt.raised THEN fmt
            ELSE IF any_null(content)
            THEN RaiseValueError("nan", <<>>)
            ELSE Return(content)

\* A column has a numeric dtype when no cell of it is a string.
is_numeric_column(data, c) == \A r \in RowsOf(data) : data.rows[r][c].k # "str"

\* The mean of column c over its present cells.
MeanOf(data, c) ==
    [k |-> "mean", c |-> c, over |-> {r \in RowsOf(data) : ~IsNull(data.rows[r][c])}]

\* handle_missing_data(data), lines 713-719.  data.mean() covers numeric
\* columns only: for a column of strings pandas either leaves it out of the
\* means (nuisance = "drop", pandas < 2) or raises TypeError (nuisance =
\* "raise", pandas >= 2).  The mean of a column with no present cell is NaN,
\* so fillna leaves that column as it is.
handle_missing_data(data, nuisance) ==
    IF ~any_null(data) THEN [out |-> Return(TRUE), data |-> data]
    ELSE IF nuisance = "raise" /\ \E c \in ColsOf(data) : ~is_numeric_column(data, c)
    THEN [out |-> Raise("TypeError"), data |-> data]
    ELSE [out |-> Return(TRUE),
          data |-> [data EXCEPT !.rows =
                      [r \in RowsOf(data) |->
                         [c \in ColsOf(data) |->
                            IF /\ IsNull(data.rows[r][c])
                               /\ is_numeric_column(data, c)
                               /\ MeanOf(data, c).over # {}
                            THEN MeanOf(data, c)
                            ELSE data.rows[r][c]]]]]

(***************************************************************************)
(* Part 4: the training pipeline.                                          *)
(*                                                                         *)
(* The library calls are modelled by their contracts: a filter function    *)
(* returns a block of the shape it was given (its window and rank          *)
(* preconditions are outside the model); a scaler's fit_transform needs    *)
(* numeric columns; Keras checks the width of each input against the       *)
(* model's Input layers in fit, evaluate and predict.                      *)
(***************************************************************************)
RaiseError(type, site, detail) ==
    [raised |-> TRUE, error |-> [type |-> type, site |-> site, detail |-> detail]]

\* the positions of the columns labelled name
ColumnIndex(data, name) == {c \in ColsOf(data) : data.columns[c] = name}

HasColumn(data, name) == ColumnIndex(data, name) # {}

Col(data, name) == CHOOSE c \in ColumnIndex(data, name) : TRUE

\* data['sample'] == tag: the rows selected
rows_tagged(data, tag) ==
    {r \in RowsOf(data) : data.rows[r][Col(data, N_sample)] = Str(tag)}

\* the elements of a set of numbers in increasing order
RECURSIVE SortedSeq(_)
SortedSeq(S) == IF S = {} THEN <<>> ELSE <<Min(S)>> \o SortedSeq(S \ {Min(S)})

\* columns[3:100] are the covariates, columns[100:1100] the spectra
BioStart == 3

SpectralEnd == 1100

\* preprocess_spectra: filter_functions, lines 554-562
filter_functions ==
    {"savgol", "moving_average", "gaussian", "median", "wavelet", "fourier", "pca"}

\* filter_functions.get(filter_type, savgol_filter_func), line 564
get_filter(filter_type) ==
    IF filter_type \in filter_functions THEN filter_type ELSE "savgol"

\* One cell of filter_func(block): the filter f applied to the block made of
\* the rows `block`, at the place of cell.
Filtered(f, block, cell) == [k |-> "filtered", f |-> f, block |-> block, of |-> cell]

\* data.loc[rows, cols] = filter_func(data.loc[rows, cols].values)
filter_block(data, f, rows, cols) ==
    [data EXCEPT !.rows =
        [r \in RowsOf(data) |->
            [c \in ColsOf(data) |->
                IF r \in rows /\ c \in cols
                THEN Filtered(f, rows, data.rows[r][c])
                ELSE data.rows[r][c]]]]

\* preprocess_spectra(data, filter_type), lines 553-569
preprocess_spectra_jointly(data, filter_type) ==
    IF ~HasColumn(data, N_sample)
    THEN [out |-> RaiseError("KeyError", "sample", <<>>), data |-> data,
          filter_calls |-> <<>>]
    ELSE LET filter_func == get_filter(filter_type)
             cols == SlicePositions(data.columns, SpectralStart, SpectralEnd)
             both == rows_tagged(data, "training") \cup rows_tagged(data, "test")
             d1 == filter_block(data, filter_func, both, cols)
         IN [out |-> Return(TRUE), data |-> d1, filter_calls |-> <<both>>]

preprocess_spectra(data, filter_type) ==
    IF ~HasColumn(data, N_sample)
    THEN [out |-> RaiseError("KeyError", "sample", <<>>), data |-> data,
          filter_calls |-> <<>>]
    ELSE LET filter_func == get_filter(filter_type)
             cols == SlicePositions(data.columns, SpectralStart, SpectralEnd)
             training == rows_tagged(data, "training")
             d1 == filter_block(data, filter_func, training, cols)
             test == rows_tagged(d1, "test")
             d2 == filter_block(d1, filter_func, test, cols)
         IN [out |-> Return(TRUE), data |-> d2, filter_calls |-> <<training, test>>]

\* apply_scaling: scalers, lines 138-144
scalers == {"standard", "minmax", "maxabs", "robust", "normalize"}

Scaled(scaler, method, cell) ==
    [k |-> "scaled", by |-> scaler, method |-> method, of |-> cell]

\* a fitted scaler: its class, and the columns it was fitted on
Scaler(method, columns) == [method |-> method, n_features_in |-> Cardinality(columns)]

\* data[cols] = scaler.fit_transform(data[cols])
scale_columns(data, scaler, method, cols) ==
    [data EXCEPT !.rows =
        [r \in RowsOf(data) |->
            [c \in ColsOf(data) |->
                IF c \in cols THEN Scaled(scaler, method, data.rows[r][c])
                ELSE data.rows[r][c]]]]

\* apply_scaling(data, scaling_method), lines 137-159
apply_scaling(data, scaling_method) ==
    IF scaling_method \notin scalers
    THEN [out |-> RaiseValueError("scaling_method", <<scaling_method>>), data |-> data]
    ELSE LET feature_columns ==
                 {c \in ColsOf(data) :
                     data.columns[c] \notin {N_filename, N_sample, N_age}}
         IN IF ~HasColumn(data, N_age)
            THEN [out |-> RaiseError("KeyError", "age", <<>>), data |-> data]
            ELSE IF ~is_numeric_column(data, Col(data, N_age))
            THEN [out |-> RaiseValueError("could_not_convert", <<"age">>), data |-> data]
            ELSE LET d1 == scale_columns(data, "scaler_y", scaling_method, {Col(data, N_age)})
                 IN IF \E c \in feature_columns : ~is_numeric_column(d1, c)
                    THEN [out |-> RaiseValueError("could_not_convert", <<"features">>),
                          data |-> d1]
                    ELSE [out |-> Return(TRUE),
                          data |-> scale_columns(d1, "scaler_x", scaling_method, feature_columns),
                          scaler_x |-> Scaler(scaling_method, feature_columns),
                          scaler_y |-> Scaler(scaling_method, {Col(data, N_age)})]

\* the widths of data.columns[3:100] and data.columns[100:1100]
bio_width(data) == Len(Slice(data.columns, BioStart, SpectralStart))

wn_width(data) == Len(Slice(data.columns, SpectralStart, SpectralEnd))

\* Keras: each input's width must be the width of the model's Input layer
input_compatible(model, wA, wB) ==
    model.input_dim_A = wA /\ model.input_dim_B = wB

\* model.predict on one row: the model's output for that row's features
Pred(model, r) == [k |-> "pred", builder |-> model.builder, row |-> r]

\* Manual hyperparameters: Python values by type.
PyVal(t) == [t |-> t]

\* lines 455-461: the count and the type of the manual hyperparameters
ManualParamCount == 8

check_model_parameters_at_most(model_parameters) ==
    IF Len(model_parameters) > ManualParamCount
    THEN RaiseValueError("param_count", <<Len(model_parameters)>>)
    ELSE IF \E i \in 1..Len(model_parameters) :
                model_parameters[i].t \notin {"int", "float", "bool"}
    THEN RaiseValueError("param_type", <<>>)
    ELSE Return(TRUE)

check_model_parameters(model_parameters) ==
    IF Len(model_parameters) # ManualParamCount
    THEN RaiseValueError("param_count", <<Len(model_parameters)>>)
    ELSE IF \E i \in 1..Len(model_parameters) :
                model_parameters[i].t \notin {"int", "float", "bool"}
    THEN RaiseValueError("param_type", <<>>)
    ELSE Return(TRUE)

\* build_model_manual, lines 337-367: range(num_conv_layers) needs an integer
build_model_manual(input_dim_A, input_dim_B, model_parameters) ==
    IF model_parameters[1].t \notin {"int", "bool"}
    THEN RaiseError("TypeError", "range", <<>>)
    ELSE Return(KerasModel(input_dim_A, input_dim_B, "build_model_manual", FALSE))

\* build_model(hp, input_dim_A, input_dim_B), lines 162-204
build_model(input_dim_A, input_dim_B) ==
    KerasModel(input_dim_A, input_dim_B, "build_model", FALSE)

\* load_model(file_path)
load_model(fs, file_path) ==
    IF file_path \notin Paths \/ fs[file_path].kind = "absent"
    THEN RaiseError("OSError", "load_model", <<>>)
    ELSE Return(fs[file_path].model)

NoError == [type |-> "none", site |-> "none", detail |-> <<>>]

NoModel == KerasModel(0, 0, "none", FALSE)

\* scaler_x=None / scaler_y=None
NoScaler == [method |-> "none", n_features_in |-> 0]

\* no training call has returned yet
NoOutputs == [present |-> FALSE]

\* training_outputs, lines 436-444
training_outputs(run) ==
    [present |-> TRUE, trained_model |-> run.model, scaler_x |-> run.scaler_x,
     scaler_y |-> run.scaler_y, predictions |-> run.predictions]

(***************************************************************************)
(* A run of a training mode: the table it works on, the stages it has      *)
(* passed (the spec's Raw, Validated, Filtered, Scaled, Fitted, Evaluated),*)
(* the exception that ended it, and the values it has produced.  Each      *)
(* do_ operator is one statement of the handler; an exception skips the    *)
(* statements after it.                                                    *)
(***************************************************************************)
StartRun(raw) ==
    [data |-> raw, stages |-> <<"Raw">>, raised |-> FALSE, error |-> NoError,
     reached_build |-> FALSE, built |-> FALSE, model |-> NoModel,
     scaler_x |-> NoScaler, scaler_y |-> NoScaler, predictions |-> <<>>]

Fail(run, error) == [run EXCEPT !.raised = TRUE, !.error = error]

\* enforce_data_format(raw_data), lines 453 and 511
do_enforce(run) ==
    IF run.raised THEN run
    ELSE LET r == enforce_data_format(run.data)
         IN IF r.raised THEN Fail(run, r.error)
            ELSE [run EXCEPT !.stages = Append(@, "Validated")]

\* lines 455-461
do_check_parameters(run, model_parameters) ==
    IF run.raised THEN run
    ELSE LET r == check_model_parameters(model_parameters)
         IN IF r.raised THEN Fail(run, r.error) ELSE run

\* data = preprocess_spectra(raw_data, filter_type=filter_CHOICE)
do_preprocess(run, filter_CHOICE) ==
    IF run.raised THEN run
    ELSE LET p == preprocess_spectra(run.data, filter_CHOICE)
         IN IF p.out.raised THEN [Fail(run, p.out.error) EXCEPT !.data = p.data]
            ELSE [run EXCEPT !.data = p.data, !.stages = Append(@, "Filtered")]

\* data, scaler_x, scaler_y = apply_scaling(data, scaling_method)
do_scaling(run, scaling_CHOICE) ==
    IF run.raised THEN run
    ELSE LET a == apply_scaling(run.data, scaling_CHOICE)
         IN IF a.out.raised THEN [Fail(run, a.out.error) EXCEPT !.data = a.data]
            ELSE [run EXCEPT !.data = a.data, !.stages = Append(@, "Scaled"),
                             !.scaler_x = a.scaler_x, !.scaler_y = a.scaler_y]

\* model = build_model_manual(input_dim_A, input_dim_B, ...), lines 468-482
do_build_manual(run, model_parameters) ==
    IF run.raised THEN run
    ELSE LET b == build_model_manual(ManualDimA, ManualDimB, model_parameters)
         IN IF b.raised THEN [Fail(run, b.error) EXCEPT !.reached_build = TRUE]
            ELSE [run EXCEPT !.reached_build = TRUE, !.built = TRUE, !.model = b.value]

\* train_and_optimize_model, lines 207-225: the tuner builds candidates with
\* build_model and fits each on the training rows; the best one is returned.
train_and_optimize_model(data, input_dim_A, input_dim_B) ==
    [build_model(input_dim_A, input_dim_B) EXCEPT !.fitted = TRUE]

\* lines 411-429: the input widths are taken from the table
do_search(run) ==
    IF run.raised THEN run
    ELSE LET input_dim_A == bio_width(run.data)
             input_dim_B == wn_width(run.data)
         IN [run EXCEPT !.reached_build = TRUE, !.built = TRUE,
                        !.model = train_and_optimize_model(run.data, input_dim_A, input_dim_B)]

\* model = load_model(file_path), line 521
do_load_model(run, fs, file_path) ==
    IF run.raised THEN run
    ELSE LET l == load_model(fs, file_path)
         IN IF l.raised THEN Fail(run, l.error) ELSE [run EXCEPT !.model = l.value]

\* final_training_pass(model, data, nb_epoch, batch_size), lines 572-587
final_training_pass(model, data) ==
    IF ~input_compatible(model, bio_width(data), wn_width(data))
    THEN RaiseValueError("input_shape", <<bio_width(data), wn_width(data)>>)
    ELSE Return([model EXCEPT !.fitted = TRUE])

do_final_training_pass(run) ==
    IF run.raised THEN run
    ELSE LET f == final_training_pass(run.model, run.data)
         IN IF f.raised THEN Fail(run, f.error)
            ELSE [run EXCEPT !.model = f.value, !.stages = Append(@, "Fitted")]

\* evaluate_model(model, data), lines 237-245: one prediction per test row
evaluate_model(model, data) ==
    IF ~input_compatible(model, bio_width(data), wn_width(data))
    THEN RaiseValueError("input_shape", <<bio_width(data), wn_width(data)>>)
    ELSE LET test == SortedSeq(rows_tagged(data, "test"))
         IN Return([i \in 1..Len(test) |-> Pred(model, test[i])])

do_evaluate(run) ==
    IF run.raised THEN run
    ELSE LET e == evaluate_model(run.model, run.data)
         IN IF e.raised THEN Fail(run, e.error)
            ELSE [run EXCEPT !.predictions = e.value, !.stages = Append(@, "Evaluated")]

\* TrainingModeWithHyperband, lines 402-446
TrainingModeWithHyperband(raw, filter_CHOICE, scaling_CHOICE) ==
    do_evaluate(do_final_training_pass(do_search(
        do_scaling(do_preprocess(StartRun(raw), filter_CHOICE), scaling_CHOICE))))

\* TrainingModeWithoutHyperband, lines 449-503
TrainingModeWithoutHyperband(raw, filter_CHOICE, scaling_CHOICE, model_parameters) ==
    do_evaluate(do_final_training_pass(do_build_manual(
        do_scaling(do_preprocess(
            do_check_parameters(do_enforce(StartRun(raw)), model_parameters),
            filter_CHOICE), scaling_CHOICE),
        model_parameters)))

\* TrainingModeFinetuning, lines 506-550
TrainingModeFinetuning(raw, filter_CHOICE, scaling_CHOICE, fs, file_path) ==
    do_evaluate(do_final_training_pass(do_load_model(
        do_scaling(do_preprocess(do_enforce(StartRun(raw)), filter_CHOICE),
                   scaling_CHOICE),
        fs, file_path)))

\* scaler.inverse_transform(value)
Inverse(scaler, value) == [k |-> "inverse", method |-> scaler.method, of |-> value]

\* evaluate_training_set(model, data, scaler_y), lines 269-291: the rows of
\* y_tr_df, in the order of the training rows.
evaluate_training_set(model, data, scaler_y) ==
    IF ~HasColumn(data, N_sample) THEN RaiseError("KeyError", "sample", <<>>)
    ELSE IF ~HasColumn(data, N_age) THEN RaiseError("KeyError", "age", <<>>)
    ELSE IF ~HasColumn(data, N_file_name) THEN RaiseError("KeyError", "file_name", <<>>)
    ELSE IF ~input_compatible(model, bio_width(data), wn_width(data))
    THEN RaiseValueError("input_shape", <<bio_width(data), wn_width(data)>>)
    ELSE IF scaler_y.method = "normalize"      \* Normalizer has no inverse_transform
    THEN RaiseError("AttributeError", "inverse_transform", <<>>)
    ELSE LET training == SortedSeq(rows_tagged(data, "training"))
         IN Return([i \in 1..Len(training) |->
                [train |-> Inverse(scaler_y, data.rows[training[i]][Col(data, N_age)]),
                 pred |-> Inverse(scaler_y, Pred(model, training[i])),
                 file |-> data.rows[training[i]][Col(data, N_file_name)]]])

\* the offset at which InferenceMode splits the feature span, lines 389-390
SplitOffset == 97

\* InferenceMode(model, data, row_number, scaler_y, scaler_x), lines 370-399,
\* with model_or_path already resolved to loaded (a model or load_model's error).
\* A row of a table with string columns is an object-dtype Series: with no
\* scaler_x to convert it, whether model.predict takes the object array
\* depends on the library build (object_ok).
InferenceMode(loaded, data, row_number, scaler_y, scaler_x, object_ok) ==
    IF loaded.raised THEN loaded
    ELSE IF row_number \notin 0..(Len(data.rows) - 1)
    THEN RaiseError("IndexError", "iloc", <<row_number>>)
    ELSE LET model == loaded.value
             span == Len(Slice(data.columns, BioStart, SpectralEnd))
             biological == IF span < SplitOffset THEN span ELSE SplitOffset
             wavenumber == span - biological
         IN IF scaler_x.method # "none" /\ scaler_x.n_features_in # span
            THEN RaiseValueError("n_features", <<span, scaler_x.n_features_in>>)
            ELSE IF ~input_compatible(model, biological, wavenumber)
            THEN RaiseValueError("input_shape", <<biological, wavenumber>>)
            ELSE IF /\ scaler_x.method = "none" /\ ~object_ok
                    /\ \E c \in ColsOf(data) : data.rows[row_number + 1][c].k = "str"
            THEN RaiseValueError("object_dtype", <<>>)
            ELSE IF scaler_y.method = "normalize"
            THEN RaiseError("AttributeError", "inverse_transform", <<>>)
            ELSE Return(IF scaler_y.method = "none"
                        THEN Pred(model, row_number + 1)
                        ELSE Inverse(scaler_y, Pred(model, row_number + 1)))

(***************************************************************************)
(* Initial states and specifications.                                      *)
(***************************************************************************)
PersistInit ==
    /\ files = [p \in Paths |-> Absent]
    /\ op = [call |-> "none", path |-> NoPath, raised |-> FALSE, error |-> "",
             args |-> <<>>]
    /\ expected = [p \in Paths |-> <<>>]
    /\ lastSave = [p \in Paths |-> [made |-> FALSE, raised |-> FALSE, args |-> <<>>]]
    /\ nSaves = 0

TableIdle ==
    /\ raw_data = EmptyTable
    /\ call = NoCall
    /\ repaired = FALSE
    /\ trained = NoOutputs

(***************************************************************************)
(* SpecPersist: saves and loads over an initially empty file system.       *)
(***************************************************************************)
InitPersist == PersistInit /\ TableIdle

SaveStep == Save /\ UNCHANGED tvars

LoadStep == Load /\ UNCHANGED tvars

NextPersist == SaveStep \/ LoadStep

SpecPersist == InitPersist /\ [][NextPersist]_vars


(***************************************************************************)
(* SpecSchema: enforce_data_format applied to one input table.             *)
(***************************************************************************)
N_Filename == <<"F", "i", "l", "e", "n", "a", "m", "e">>

FirstTenVariants ==
    {expected_first_10}
    \cup {[expected_first_10 EXCEPT ![d] = N_foo] : d \in 1..10}
    \cup {[expected_first_10 EXCEPT ![d] = expected_first_10[d + 1],
                                    ![d + 1] = expected_first_10[d]] : d \in {1, 5, 9}}
    \cup {[expected_first_10 EXCEPT ![1] = N_file_name],
          [expected_first_10 EXCEPT ![1] = N_Filename],
          [expected_first_10 EXCEPT ![3] = N_foo, ![7] = N_file_name]}

SchemaWidths == {5, 99, 100, 101, 106, 110}

BadNames == {N_foo, N_w_n, N_wave}

\* Python indexes of spectral columns that may carry a name without marker
BadSets(n) == SUBSET ({100, 105, n - 1} \cap 100..(n - 1))

SchemaTables ==
    UNION {
        {MakeTable(TableColumns(n, f, BioName(10), st, b, bn), <<"training">>, {}) :
            f \in FirstTenVariants, st \in SpectralStyles,
            b \in BadSets(n), bn \in BadNames}
        : n \in SchemaWidths}

InitSchema ==
    /\ PersistInit
    /\ raw_data \in SchemaTables
    /\ call = NoCall
    /\ repaired = FALSE
    /\ trained = NoOutputs

\* validateSchema: one call of enforce_data_format on the table.
ValidateSchema ==
    /\ call.fn = "none"
    /\ call' = [fn |-> "enforce_data_format", out |-> enforce_data_format(raw_data),
                before |-> raw_data]
    /\ raw_data' = raw_data
    /\ UNCHANGED <<repaired, trained, pvars>>

NextSchema == ValidateSchema

SpecSchema == InitSchema /\ [][NextSchema]_vars

(***************************************************************************)
(* SpecQuality: validation and repair of a table with missing cells.       *)
(***************************************************************************)
\* Cells that may be missing: a file name, a partition tag, an age, both
\* weights (the whole column) and one spectral value.
MissingCells == {<<1, 1>>, <<2, 2>>, <<1, 3>>, <<1, 4>>, <<2, 4>>, <<2, 101>>}

QualityTables ==
    {MakeTable(TableColumns(n, expected_first_10, BioName(10), "wn", b, N_foo),
               <<"training", "test">>, m) :
        n \in {100, 101}, b \in {{}, {100}}, m \in SUBSET MissingCells}

SourceKinds == {"str", "StringIO", "DataFrame"}

InitQuality ==
    /\ PersistInit
    /\ raw_data \in QualityTables
    /\ call = NoCall
    /\ repaired = FALSE
    /\ trained = NoOutputs

\* read_and_clean_data on the table as its source now holds it.
ReadAndCleanData ==
    \E kind \in SourceKinds :
        /\ call' = [fn |-> "read_and_clean_data", kind |-> kind,
                    out |-> LET r == read_and_clean_data(kind, raw_data)
                            IN IF r.raised THEN r ELSE Return(TRUE)]
        /\ UNCHANGED <<raw_data, repaired, trained, pvars>>

\* enforce_data_format alone, as the training modes call it.
EnforceOnly ==
    /\ call' = [fn |-> "enforce_data_format", out |-> enforce_data_format(raw_data),
                before |-> raw_data]
    /\ UNCHANGED <<raw_data, repaired, trained, pvars>>

HandleMissingData ==
    \E nuisance \in {"drop", "raise"} :
        LET h == handle_missing_data(raw_data, nuisance)
        IN /\ raw_data' = h.data
           /\ call' = [fn |-> "handle_missing_data", out |-> h.out]
           /\ repaired' = (repaired \/ ~h.out.raised)
           /\ UNCHANGED <<trained, pvars>>

NextQuality == ReadAndCleanData \/ EnforceOnly \/ HandleMissingData

SpecQuality == InitQuality /\ [][NextQuality]_vars


(***************************************************************************)
(* SpecTrain: one training run on a table, then evaluation and inference.  *)
(***************************************************************************)
MaxRows == 3

Tags == {"training", "test", "holdout"}

\* partition tags of the rows: at least one training and one test row
TagPatterns ==
    {tags \in UNION {[1..n -> Tags] : n \in 2..MaxRows} :
        /\ \E r \in DOMAIN tags : tags[r] = "training"
        /\ \E r \in DOMAIN tags : tags[r] = "test"}

\* the column count of the spec's end-to-end example, and the first counts
\* that fill and exceed columns[100:1100]
NarrowWidth == 110

TrainTables ==
    {MakeTable(TableColumns(NarrowWidth, expected_first_10, BioName(10), "wn", {}, N_foo),
               tags, {}) : tags \in TagPatterns}
    \cup {MakeTable(TableColumns(n, expected_first_10, BioName(10), "WN", {}, N_foo),
                    <<"training", "test">>, {}) : n \in {SpectralEnd, SpectralEnd + 1}}
    \cup {MakeTable(TableColumns(NarrowWidth, expected_first_10, N_file_name, "wn", {}, N_foo),
                    <<"test", "training">>, {}),
          MakeTable(TableColumns(NarrowWidth, expected_first_10, BioName(10), "wn", {105}, N_foo),
                    <<"training", "test">>, {}),
          MakeTable(TableColumns(NarrowWidth, [expected_first_10 EXCEPT ![1] = N_file_name],
                                 BioName(10), "wn", {}, N_foo),
                    <<"training", "test">>, {}),
          MakeTable(TableColumns(NarrowWidth, [expected_first_10 EXCEPT ![2] = N_foo],
                                 BioName(10), "wn", {}, N_foo),
                    <<"training", "test">>, {}),
          MakeTable(TableColumns(NarrowWidth, [expected_first_10 EXCEPT ![4] = N_foo],
                                 BioName(10), "wn", {}, N_foo),
                    <<"training", "test">>, {})}

\* tables handed to InferenceMode
InferenceTables ==
    {MakeTable(TableColumns(n, expected_first_10, BioName(10), "wn", {}, N_foo),
               <<"test">>, {}) : n \in {NarrowWidth, SpectralEnd, SpectralEnd + 1}}

FilterChoices == {"pca", "lowpass"}

ScalingChoices == {"standard", "normalize", "zscore"}

GoodParameters ==
    <<PyVal("int"), PyVal("int"), PyVal("int"), PyVal("float"),
      PyVal("bool"), PyVal("int"), PyVal("int"), PyVal("float")>>

ParameterChoices ==
    {GoodParameters,
     SubSeq(GoodParameters, 1, 7),
     Append(GoodParameters, PyVal("int")),
     [GoodParameters EXCEPT ![4] = PyVal("str")],
     [GoodParameters EXCEPT ![1] = PyVal("float")]}

\* An artifact of an earlier manual run is on disk at p1; p2 does not exist.
InitTrain ==
    /\ files = [p \in Paths |->
                  IF p = "p1"
                  THEN ModelFile(KerasModel(ManualDimA, ManualDimB, "build_model_manual", TRUE))
                  ELSE Absent]
    /\ op = [call |-> "none", path |-> NoPath, raised |-> FALSE, error |-> "",
             args |-> <<>>]
    /\ expected = [p \in Paths |-> <<>>]
    /\ lastSave = [p \in Paths |-> [made |-> FALSE, raised |-> FALSE, args |-> <<>>]]
    /\ nSaves = 0
    /\ raw_data \in TrainTables
    /\ call = NoCall
    /\ repaired = FALSE
    /\ trained = NoOutputs

\* What a training call leaves: the table as mutated so far, the record of
\* the run, and the outputs when it returned.
Finish(fn, run, args) ==
    /\ raw_data' = run.data
    /\ call' = [fn |-> fn, run |-> [run EXCEPT !.data = EmptyTable], args |-> args,
                before |-> raw_data]
    /\ trained' = IF run.raised THEN trained ELSE training_outputs(run)
    /\ UNCHANGED <<repaired, pvars>>

TrainHyperband ==
    \E f \in FilterChoices, sc \in ScalingChoices :
        /\ call.fn = "none"
        /\ Finish("TrainingModeWithHyperband",
                  TrainingModeWithHyperband(raw_data, f, sc),
                  [filter |-> f, scaling |-> sc])

TrainManual ==
    \E f \in FilterChoices, sc \in ScalingChoices, mp \in ParameterChoices :
        /\ call.fn = "none"
        /\ Finish("TrainingModeWithoutHyperband",
                  TrainingModeWithoutHyperband(raw_data, f, sc, mp),
                  [filter |-> f, scaling |-> sc, model_parameters |-> mp])

TrainFinetune ==
    \E f \in FilterChoices, sc \in ScalingChoices, file_path \in Paths :
        /\ call.fn = "none"
        /\ Finish("TrainingModeFinetuning",
                  TrainingModeFinetuning(raw_data, f, sc, files, file_path),
                  [filter |-> f, scaling |-> sc, file_path |-> file_path])

\* preprocessSpectra called on its own
PreprocessSpectra ==
    \E f \in FilterChoices :
        /\ call.fn = "none"
        /\ LET p == preprocess_spectra(raw_data, f)
           IN /\ raw_data' = p.data
              /\ call' = [fn |-> "preprocess_spectra", out |-> p.out,
                          filter_calls |-> p.filter_calls, before |-> raw_data,
                          args |-> [filter |-> f]]
        /\ UNCHANGED <<repaired, trained, pvars>>

\* evaluate_training_set on the table the model was just trained on
EvaluateTrainingSet ==
    /\ trained.present
    /\ call' = [fn |-> "evaluate_training_set",
                out |-> evaluate_training_set(trained.trained_model, raw_data,
                                              trained.scaler_y)]
    /\ UNCHANGED <<raw_data, repaired, trained, pvars>>

\* InferenceMode with the trained model and its scalers, or with a model
\* path and no scalers
Inference ==
    \E src \in {"trained"} \cup Paths, t \in InferenceTables,
       row_number \in {0, 1}, object_ok \in BOOLEAN :
        /\ src = "trained" => trained.present
        /\ call' = [fn |-> "InferenceMode",
                    span |-> Len(Slice(t.columns, BioStart, SpectralEnd)),
                    source |-> src,
                    out |-> IF src = "trained"
                            THEN InferenceMode(Return(trained.trained_model), t, row_number,
                                               trained.scaler_y, trained.scaler_x, object_ok)
                            ELSE InferenceMode(load_model(files, src), t, row_number,
                                               NoScaler, NoScaler, object_ok)]
        /\ UNCHANGED <<raw_data, repaired, trained, pvars>>

NextTrain ==
    \/ TrainHyperband
    \/ TrainManual
    \/ TrainFinetune
    \/ PreprocessSpectra
    \/ EvaluateTrainingSet
    \/ Inference

SpecTrain == InitTrain /\ [][NextTrain]_vars

(***************************************************************************)
(* Fitting under an EarlyStopping callback.  A fit is given the validation *)
(* loss of each epoch; the weights after epoch e are named e.              *)
(***************************************************************************)
\* EarlyStopping(monitor=..., patience=..., restore_best_weights=...)
EarlyStopping(monitor, patience, restore_best_weights) ==
    [monitor |-> monitor, patience |-> patience,
     restore_best_weights |-> restore_best_weights]

\* patience=7, line 208
SearchPatience == 7

\* patience=100, line 573
FinalPatience == 100

\* earlystop of train_and_optimize_model, line 208
earlystop_search == EarlyStopping("val_loss", SearchPatience, TRUE)

\* earlystop of final_training_pass, line 573
earlystop_final == EarlyStopping("val_loss", FinalPatience, TRUE)

\* the callback's state at on_train_begin, and the model's initial weights
fit_begin ==
    [epochs_run |-> 0, wait |-> 0, seen |-> FALSE, best |-> 0, best_weights |-> 0,
     stop_training |-> FALSE, weights |-> 0]

\* EarlyStopping.on_epoch_end after epoch number epoch (1-based here) with
\* monitored value current
on_epoch_end(cb, st, epoch, current) ==
    IF ~st.seen \/ current < st.best
    THEN [st EXCEPT !.epochs_run = epoch, !.weights = epoch, !.seen = TRUE,
                    !.best = current, !.wait = 0,
                    !.best_weights = IF cb.restore_best_weights THEN epoch ELSE @]
    ELSE LET stop == st.wait + 1 >= cb.patience
         IN [st EXCEPT !.epochs_run = epoch, !.wait = @ + 1,
                       !.stop_training = stop,
                       !.weights = IF stop /\ cb.restore_best_weights /\ st.seen
                                   THEN st.best_weights ELSE epoch]

\* EarlyStopping.on_train_end: library versions that restore the best weights
\* also when training ran through all its epochs (restore_at_end)
on_train_end(cb, st, restore_at_end) ==
    IF cb.restore_best_weights /\ restore_at_end /\ st.seen
    THEN [st EXCEPT !.weights = st.best_weights]
    ELSE st

RECURSIVE fit_epochs(_, _, _, _, _)
\* the epoch loop of model.fit(..., epochs=nb_epoch, callbacks=[cb])
fit_epochs(cb, nb_epoch, val_loss, epoch, st) ==
    IF epoch > nb_epoch \/ st.stop_training THEN st
    ELSE fit_epochs(cb, nb_epoch, val_loss, epoch + 1,
                    on_epoch_end(cb, st, epoch, val_loss[epoch]))

\* model.fit(..., epochs=nb_epoch, validation_split=0.25, callbacks=[cb])
fit(cb, nb_epoch, val_loss, restore_at_end) ==
    on_train_end(cb, fit_epochs(cb, nb_epoch, val_loss, 1, fit_begin), restore_at_end)

(***************************************************************************)
(* SpecFit: the fits of train_and_optimize_model and final_training_pass.  *)
(***************************************************************************)
MaxEpochs == 9

Losses == {1, 2}

\* nb_epoch = 1 is what the three training modes pass (lines 427, 484, 529);
\* both functions take it as a parameter.
EpochChoices == {1, MaxEpochs}

InitFit == PersistInit /\ TableIdle

FitCall(site, cb, nb_epoch, val_loss, restore_at_end) ==
    /\ call.fn = "none"
    /\ call' = [fn |-> "fit", site |-> site, callback |-> cb, nb_epoch |-> nb_epoch,
                val_loss |-> val_loss,
                out |-> fit(cb, nb_epoch, val_loss, restore_at_end)]
    /\ UNCHANGED <<raw_data, repaired, trained, pvars>>

\* one candidate's fit inside tuner.search, lines 214-220
FitSearchCandidate ==
    \E nb_epoch \in EpochChoices, restore_at_end \in BOOLEAN :
        \E val_loss \in [1..nb_epoch -> Losses] :
            FitCall("train_and_optimize_model", earlystop_search, nb_epoch, val_loss,
                    restore_at_end)

\* model.fit of final_training_pass, lines 579-585
FitFinalPass ==
    \E nb_epoch \in EpochChoices, restore_at_end \in BOOLEAN :
        \E val_loss \in [1..nb_epoch -> Losses] :
            FitCall("final_training_pass", earlystop_final, nb_epoch, val_loss,
                    restore_at_end)

NextFit == FitSearchCandidate \/ FitFinalPass

SpecFit == InitFit /\ [][NextFit]_vars

(***************************************************************************)
(* cross_validate_model, lines 647-663.  The weights of the model are      *)
(* named by the sequence of row sets it has been fitted on so far.         *)
(***************************************************************************)
\* the permutation np.random.RandomState(42) gives KFold for n rows
Shuffles(n) == {p \in [1..n -> 1..n] : \A a, b \in 1..n : p[a] = p[b] => a = b}

\* kf.split(X_biological), line 655: fold f tests a chunk of the shuffled
\* indexes (the first n % k chunks are one longer) and trains on the rest
KFold_split(n, k, shuffled) ==
    LET size(f) == (n \div k) + (IF f <= n % k THEN 1 ELSE 0)
        start(f) == (f - 1) * (n \div k) + Min({f - 1, n % k})
    IN [f \in 1..k |->
           LET test_index == {shuffled[i] : i \in (start(f) + 1)..(start(f) + size(f))}
           IN [train_index |-> (1..n) \ test_index, test_index |-> test_index]]

RECURSIVE cv_loop(_, _, _, _)
\* the loop of lines 655-661: model.fit on the fold's training rows, then
\* model.evaluate on its test rows; the same model object goes through
\* every fold.
cv_loop(folds, f, weights, scores) ==
    IF f > Len(folds) THEN scores
    ELSE LET fitted == Append(weights, folds[f].train_index)
             score == [start |-> weights, trained_on |-> fitted,
                       test |-> folds[f].test_index]
         IN cv_loop(folds, f + 1, fitted, Append(scores, score))

cross_validate_model(model, data, k, shuffled) ==
    IF k < 2 \/ k > Len(data.rows) THEN RaiseValueError("n_splits", <<k, Len(data.rows)>>)
    ELSE IF ~HasColumn(data, N_age) THEN RaiseError("KeyError", "age", <<>>)
    ELSE IF ~input_compatible(model, bio_width(data), wn_width(data))
    THEN RaiseValueError("input_shape", <<bio_width(data), wn_width(data)>>)
    ELSE Return(cv_loop(KFold_split(Len(data.rows), k, shuffled), 1, <<>>, <<>>))

(***************************************************************************)
(* SpecCV: one call of cross_validate_model on a table.                    *)
(***************************************************************************)
MaxFolds == 3

InitCV ==
    /\ PersistInit
    /\ raw_data \in TrainTables
    /\ call = NoCall
    /\ repaired = FALSE
    /\ trained = NoOutputs

CrossValidate ==
    \E k \in 1..MaxFolds, shuffled \in Shuffles(Len(raw_data.rows)),
       model \in {build_model(bio_width(raw_data), wn_width(raw_data)),
                  build_model(ManualDimA, ManualDimB)} :
        /\ call.fn = "none"
        /\ call' = [fn |-> "cross_validate_model", k |-> k,
                    folds |-> KFold_split(Len(raw_data.rows), k, shuffled),
                    out |-> cross_validate_model(model, raw_data, k, shuffled)]
        /\ UNCHANGED <<raw_data, repaired, trained, pvars>>

NextCV == CrossValidate

SpecCV == InitCV /\ [][NextCV]_vars

(***************************************************************************)
(* The columns a feature scaler is fitted on and the columns it is later   *)
(* applied to.  Labels compare as Python strings do, by code point.        *)
(***************************************************************************)
\* the characters of the labels in code-point order
CodePoints == DigitChars \o UpperChars \o <<"_">> \o LowerChars

ord == [ch \in {CodePoints[i] : i \in 1..Len(CodePoints)} |->
           CHOOSE i \in 1..Len(CodePoints) : CodePoints[i] = ch]

\* a < b on str: decided at the first position where they differ
str_less(a, b) ==
    LET shorter == IF Len(a) < Len(b) THEN Len(a) ELSE Len(b)
        differ == {i \in 1..shorter : a[i] # b[i]}
    IN IF differ = {} THEN Len(a) < Len(b)
       ELSE ord[a[Min(differ)]] < ord[b[Min(differ)]]

\* data.columns.difference(other): the labels not in other, sorted
Index_difference(columns, other) ==
    LET labels == {columns[i] : i \in 1..Len(columns)} \ other
        before == [x \in labels |-> Cardinality({y \in labels : str_less(y, x)})]
    IN [i \in 1..Cardinality(labels) |-> CHOOSE x \in labels : before[x] = i - 1]

\* line 149
feature_columns(data) == Index_difference(data.columns, {N_filename, N_sample, N_age})

\* scaler_x.fit_transform(data[feature_columns]), line 157: statistic i of
\* the fitted scaler belongs to the i-th column of the frame it was given
fit_transform_x(scaler, data) ==
    [method |-> scaler.method, n_features_in |-> scaler.n_features_in,
     feature_names_in |-> feature_columns(data)]

\* lines 379-386 of InferenceMode: the row's values of data.columns[3:1100]
\* as a bare array, then scaler_x.transform, which scales value i with
\* statistic i
inference_transform(scaler_x, data, row_number) ==
    IF row_number \notin 0..(Len(data.rows) - 1)
    THEN RaiseError("IndexError", "iloc", <<row_number>>)
    ELSE LET names == Slice(data.columns, BioStart, SpectralEnd)
         IN IF scaler_x.n_features_in # Len(names)
            THEN RaiseValueError("n_features", <<Len(names), scaler_x.n_features_in>>)
            ELSE Return([i \in 1..Len(names) |->
                     [column |-> names[i],
                      cell |-> data.rows[row_number + 1][BioStart + i],
                      scaled_as |-> scaler_x.feature_names_in[i]]])

(***************************************************************************)
(* SpecScale: apply_scaling on a table, then the scaling step of           *)
(* InferenceMode with the scaler it returned.                              *)
(***************************************************************************)
\* the 110-column tables of TrainTables, one tagging each
ScaleTables ==
    {t \in TrainTables :
        Len(t.columns) = NarrowWidth /\ Len(t.rows) = 2 /\ t.rows[1][2] = Str("training")}

InitScale ==
    /\ PersistInit
    /\ raw_data \in ScaleTables
    /\ call = NoCall
    /\ repaired = FALSE
    /\ trained = NoOutputs

ApplyScaling ==
    \E scaling_method \in ScalingChoices :
        /\ call.fn = "none"
        /\ LET a == apply_scaling(raw_data, scaling_method)
           IN /\ raw_data' = a.data
              /\ call' = [fn |-> "apply_scaling", out |-> a.out,
                          columns |-> raw_data.columns]
              /\ trained' = IF a.out.raised THEN trained
                            ELSE [present |-> TRUE,
                                  scaler_x |-> fit_transform_x(a.scaler_x, raw_data),
                                  scaler_y |-> a.scaler_y]
        /\ UNCHANGED <<repaired, pvars>>

InferenceScaling ==
    \E t \in ScaleTables, row_number \in 0..MaxRows :
        /\ trained.present
        /\ call' = [fn |-> "scaler_x.transform", columns |-> t.columns,
                    out |-> inference_transform(trained.scaler_x, t, row_number)]
        /\ UNCHANGED <<raw_data, repaired, trained, pvars>>

NextScale == ApplyScaling \/ InferenceScaling

SpecScale == InitScale /\ [][NextScale]_vars





(***************************************************************************)
(* The history an artifact holds, decoded: one <<column names,             *)
(* description, approach>> per record, in file order.                      *)
(***************************************************************************)
HistoryOf(f) ==
    IF f.kind = "h5" /\ f.metadata.present
    THEN LET recs == json_loads(f.metadata.metadata_history).v
         IN [i \in 1..Len(recs) |->
                <<json_loads(recs[i].v[1]), recs[i].v[2], recs[i].v[3]>>]
    ELSE <<>>

\* C1: after a save that was given a prior artifact, the saved artifact's
\* history is the prior artifact's history, unchanged and in order, followed
\* by the new record: n chained saves leave n records, the newest last.
C1_HistoryAppendOnly ==
    op.call = "save" =>
        /\ ~op.raised
        /\ HistoryOf(files[op.path]) = expected[op.path]

\* C2: a load of an artifact whose most recent save succeeded returns the
\* column names, description and approach label passed to that save.
C2_LoadReturnsLastSave ==
    (op.call = "load" /\ lastSave[op.path].made /\ ~lastSave[op.path].raised) =>
        /\ ~op.raised
        /\ <<op.args[1], op.args[2], op.args[3]>> = lastSave[op.path].args

\* C2 witness: a load that returned, of an artifact saved more than once,
\* the last time with description "v2".
C2_Witness ==
    /\ op.call = "load" /\ ~op.raised
    /\ Len(expected[op.path]) >= 2
    /\ op.args[2] = PyStr("v2")

N_wn_kw == <<"w", "n">>

N_wavenumber_kw == <<"w", "a", "v", "e", "n", "u", "m", "b", "e", "r">>

\* The claim's own reading of "contains 'wavenumber' or 'wn', whatever the case".
C3_Marked(col) ==
    \E kw \in {N_wn_kw, N_wavenumber_kw} :
        \E off \in 0..(Len(col) - Len(kw)) :
            \A k \in 1..Len(kw) : LowerChar(col[off + k]) = kw[k]

C3_SchemaOK(t) ==
    /\ Len(t.columns) >= 100
    /\ \A i \in 1..10 : t.columns[i] = expected_first_10[i]
    /\ \A j \in 101..Len(t.columns) : C3_Marked(t.columns[j])

\* C3: enforce_data_format accepts exactly the tables with at least 100
\* columns, the ten identity names in order, and a marker in every name from
\* index 100 on; a rejection names the first violation (the column count,
\* else the first wrong identity position, else the first unmarked spectral
\* column); the table is not modified.
C3_SchemaExact ==
    call.fn = "enforce_data_format" =>
        LET cols == raw_data.columns
            out == call.out
        IN /\ (~out.raised) <=> C3_SchemaOK(raw_data)
           /\ out.raised =>
                IF Len(cols) < 100
                THEN out.error.site = "column_count" /\ out.error.detail = <<Len(cols)>>
                ELSE IF \E i \in 1..10 : cols[i] # expected_first_10[i]
                THEN /\ out.error.site = "first_10"
                     /\ LET i == out.error.detail[1]
                        IN /\ i \in 1..10
                           /\ cols[i] # expected_first_10[i]
                           /\ \A h \in 1..(i - 1) : cols[h] = expected_first_10[h]
                           /\ out.error.detail[2] = expected_first_10[i]
                           /\ out.error.detail[3] = cols[i]
                ELSE /\ out.error.site = "spectral_marker"
                     /\ \E j \in 101..Len(cols) :
                           /\ out.error.detail = <<cols[j]>>
                           /\ ~C3_Marked(cols[j])
                           /\ \A h \in 101..(j - 1) : C3_Marked(cols[h])
           /\ raw_data = call.before

\* C3 witness: a 110-column table whose spectral names carry the marker in
\* mixed case was accepted.
C3_Witness ==
    /\ call.fn = "enforce_data_format"
    /\ ~call.out.raised
    /\ Len(raw_data.columns) = 110
    /\ raw_data.columns[106] = SpectralName("WaveNumber", 105)

\* C4: validation (read_and_clean_data on a CSV source) of a schema-valid
\* table with a missing cell fails with the missing-value error; once
\* handle_missing_data has returned for the table, validation passes.
C4_RepairThenValid ==
    (/\ call.fn = "read_and_clean_data"
     /\ call.kind \in {"str", "StringIO"}
     /\ ~enforce_data_format(raw_data).raised) =>
        /\ any_null(raw_data) => (call.out.raised /\ call.out.error.site = "nan")
        /\ repaired => ~call.out.raised

TrainingFns ==
    {"TrainingModeWithHyperband", "TrainingModeWithoutHyperband", "TrainingModeFinetuning"}

StageOrder == <<"Raw", "Validated", "Filtered", "Scaled", "Fitted", "Evaluated">>

IsPrefix(a, b) == Len(a) <= Len(b) /\ SubSeq(b, 1, Len(a)) = a

Reached(stages, stage) == \E i \in 1..Len(stages) : stages[i] = stage

\* C5: in every training mode the stages of a run are a prefix of Raw,
\* Validated, Filtered, Scaled, Fitted, Evaluated, and a run on a table that
\* fails the schema check never reaches Filtered.
C5_ValidatedFirst ==
    call.fn \in TrainingFns =>
        /\ IsPrefix(call.run.stages, StageOrder)
        /\ ~C3_SchemaOK(raw_data) => ~Reached(call.run.stages, "Filtered")

\* C6: the manual mode on a schema-valid table with eight valid
\* hyperparameters (and a supported scaling name) returns, with one
\* prediction per test row and a model whose two input widths are the widths
\* of the covariate and spectral blocks of the table.
C6_ManualCompletes ==
    (/\ call.fn = "TrainingModeWithoutHyperband"
     /\ C3_SchemaOK(raw_data)
     /\ call.args.model_parameters = GoodParameters
     /\ call.args.scaling \in scalers) =>
        /\ ~call.run.raised
        /\ Len(call.run.predictions) =
              Cardinality({r \in RowsOf(raw_data) : raw_data.rows[r][2] = Str("test")})
        /\ call.run.model.input_dim_A = Len(raw_data.columns) - 3 - wn_width(raw_data)
        /\ call.run.model.input_dim_B = wn_width(raw_data)

\* C7: InferenceMode raises whenever the feature span columns[3:1100] of the
\* table is not 1097 wide; it returns a prediction only for that width.
C7_ShapeError ==
    call.fn = "InferenceMode" =>
        (call.span # 1097 => call.out.raised)

C8_ParamsOK(mp) ==
    Len(mp) = 8 /\ \A i \in 1..Len(mp) : mp[i].t \in {"int", "float", "bool"}

C8_ParamError(run) ==
    run.raised /\ run.error.site \in {"param_count", "param_type"}

C9_TrainingSetRecords ==
    (call.fn = "evaluate_training_set" /\ C3_SchemaOK(raw_data)) =>
        /\ ~call.out.raised
        /\ LET training == SortedSeq({r \in RowsOf(raw_data) :
                                         raw_data.rows[r][2] = Str("training")})
               recs == call.out.value
           IN /\ Len(recs) = Len(training)
              /\ \A i \in 1..Len(recs) :
                    /\ recs[i].file = raw_data.rows[training[i]][1]
                    /\ recs[i].pred.of = Pred(trained.trained_model, training[i])

C10_Selected(filter_type) ==
    IF filter_type \in {"savgol", "moving_average", "gaussian", "median",
                        "wavelet", "fourier", "pca"}
    THEN filter_type ELSE "savgol"

C10_Tagged(t, tag) ==
    {r \in 1..Len(t.rows) :
        \E c \in 1..Len(t.columns) : t.columns[c] = N_sample /\ t.rows[r][c] = Str(tag)}

\* C10: preprocess_spectra applies the selected filter once to the block of
\* the training rows and once to the block of the test rows, over the
\* columns at indexes 100..1099; every other cell, and the numbers of rows
\* and columns, are as before.  (When the table has no 'sample' column the
\* call raises and changes nothing.)
C10_FilterFrame ==
    call.fn = "preprocess_spectra" =>
        LET before == call.before
            f == C10_Selected(call.args.filter)
            training == C10_Tagged(before, "training")
            test == C10_Tagged(before, "test")
        IN IF call.out.raised THEN raw_data = before
           ELSE /\ call.filter_calls = <<training, test>>
                /\ training \cap test = {}
                /\ raw_data.columns = before.columns
                /\ Len(raw_data.rows) = Len(before.rows)
                /\ \A r \in 1..Len(before.rows) :
                      /\ Len(raw_data.rows[r]) = Len(before.rows[r])
                      /\ \A c \in 1..Len(before.columns) :
                            raw_data.rows[r][c] =
                               IF c >= 101 /\ c <= 1100 /\ r \in training
                               THEN Filtered(f, training, before.rows[r][c])
                               ELSE IF c >= 101 /\ c <= 1100 /\ r \in test
                               THEN Filtered(f, test, before.rows[r][c])
                               ELSE before.rows[r][c]

\* C10 witness: the filter ran on a table that has training, test and
\* untagged rows.
C10_Witness ==
    /\ call.fn = "preprocess_spectra"
    /\ ~call.out.raised
    /\ C10_Tagged(raw_data, "training") # {}
    /\ C10_Tagged(raw_data, "test") # {}
    /\ C10_Tagged(raw_data, "holdout") # {}
    /\ call.args.filter = "lowpass"

C11_NonImproving(val_loss, e) ==
    e > 1 /\ \A j \in 1..(e - 1) : val_loss[e] >= val_loss[j]

\* C11: every fit of a training mode, a search candidate's and the final
\* pass's alike, monitors the validation loss with patience 7 and best
\* weights restored, and does not train past the 7th consecutive
\* non-improving check.
C11_SamePolicy ==
    call.fn = "fit" =>
        /\ call.callback = [monitor |-> "val_loss", patience |-> 7,
                            restore_best_weights |-> TRUE]
        /\ \A e \in 7..call.out.epochs_run :
              (\A j \in (e - 6)..e : C11_NonImproving(call.val_loss, j))
                  => call.out.epochs_run = e

C12_Reorderings(folds) ==
    {order \in [1..Len(folds) -> 1..Len(folds)] :
        \A a, b \in 1..Len(folds) : order[a] = order[b] => a = b}

\* C12: in cross_validate_model every fold starts fitting from the model
\* state the call was given, whatever folds were fitted before it, so running
\* the folds in any other order gives each fold the same score; the scores
\* are returned one per fold, in fold order.
C12_FoldsIndependent ==
    (call.fn = "cross_validate_model" /\ ~call.out.raised) =>
        LET scores == call.out.value
            folds == call.folds
        IN /\ Len(scores) = call.k
           /\ \A f \in 1..Len(scores) : scores[f].test = folds[f].test_index
           /\ \A f \in 1..Len(scores) : scores[f].start = <<>>
           /\ \A order \in C12_Reorderings(folds) :
                 LET reordered == cv_loop([i \in 1..Len(folds) |-> folds[order[i]]],
                                          1, <<>>, <<>>)
                 IN \A i \in 1..Len(folds) : reordered[i] = scores[order[i]]

C13_ValidationSites ==
    {"column_count", "first_10", "spectral_marker", "param_count", "param_type",
     "scaling_method"}

\* C13: when TrainingModeWithoutHyperband fails with a validation error (a
\* schema violation, a wrong count or type of hyperparameters, an
\* unsupported scaling name) the caller's table is exactly as it was passed
\* in: nothing has been filtered or scaled.
C13_InputUntouched ==
    (/\ call.fn = "TrainingModeWithoutHyperband"
     /\ call.run.raised
     /\ call.run.error.site \in C13_ValidationSites) =>
        raw_data = call.before

\* C14: the scaler apply_scaling returns is fitted over the same columns, in
\* the same order, as the vector InferenceMode hands to scaler_x.transform
\* (columns 3..1099 of the table, in table order), so at inference on a
\* table laid out as the training table every value is scaled with the
\* statistics fitted for its own column.
C14_ScalerColumnsAligned ==
    /\ (call.fn = "apply_scaling" /\ ~call.out.raised /\ C3_SchemaOK(raw_data)) =>
          trained.scaler_x.feature_names_in = SubSeq(call.columns, 4, Len(call.columns))
    /\ (/\ call.fn = "scaler_x.transform"
        /\ ~call.out.raised
        /\ call.columns = raw_data.columns
        /\ C3_SchemaOK(raw_data)) =>
          \A i \in 1..Len(call.out.value) :
              call.out.value[i].scaled_as = call.out.value[i].column

====
